---- MODULE Spec2Model ----
(***************************************************************************)
(* Model of the retrieval-augmented knowledge pipeline of TDS_Virtual_TA:  *)
(*   - the segmenter chunk_text          (src/base_creation_test.py)       *)
(*   - the ingestion run main()          (src/base_creation_test.py)       *)
(*   - retrieval and the /query handler  (src/virtual_ta_api.py)           *)
(* Python strings are sequences of one-character strings.                  *)
(***************************************************************************)
EXTENDS Integers, Sequences, FiniteSets, TLC

VARIABLES
    \* ---- chunk_text(text, chunk_size, overlap) ----
    ct_text,        \* parameter text
    ct_size,        \* parameter chunk_size
    ct_overlap,     \* parameter overlap
    ct_start,       \* local start
    ct_chunks,      \* local chunks
    ct_windows,     \* history: the [lo, hi) index range of every text[start:end]
    ct_pc,          \* "idle" | "loop" | "done"
    \* ---- the chunk store read by the query service ----
    forum_chunks,   \* rows of table forum_chunks, in cursor order
    course_chunks,  \* rows of table course_chunks, in cursor order
    \* ---- retrieve_similar_chunks(question) called on its own ----
    r_question_embedding,   \* local question_embedding
    r_returned,             \* the returned list
    r_pc,                   \* "idle" | "call" | "returned" | "raised"
    \* ---- query_virtual_ta(req) ----
    q_question_embedding,   \* question_embedding of the retrieval it runs
    q_chunks,               \* local chunks
    q_llm_calls,            \* number of requests sent to the generative model
    q_llm_output,           \* local llm_output
    q_response,             \* the QueryResponse returned
    q_pc,                   \* "idle" | "start" | "awaiting" | "done" | "error"
    \* ---- main(): one ingestion run over the connection conn ----
    i_forum_files,      \* the .json files of FORUM_DIR: each a list of posts
    i_course_files,     \* the .md files of COURSE_DIR: each [name, lines]
    i_pc,               \* "idle" | "start" | "forum" | "course" | "done" | "aborted"
    i_file,             \* index of the file being processed in its directory
    i_post,             \* index of the post being processed in its file
    i_pending_forum,    \* rows inserted into forum_chunks, not yet committed
    i_pending_course,   \* rows inserted into course_chunks, not yet committed
    i_next_id,          \* the last chunk id uuid4 has handed out
    i_run,              \* number of the run of main, 0 when main is not running
    i_batches,          \* history: every answered embed() call and what was stored of it
    \* ---- process_course_md(filepath, conn) ----
    cm_lines,           \* local lines
    cm_url,             \* local url
    cm_section_title,   \* local section_title
    cm_buffer,          \* local buffer
    cm_line,            \* index of the next line of the for loop
    cm_pc               \* "idle" | "front" | "lines" | "returned" | "raised"

ct_vars == <<ct_text, ct_size, ct_overlap, ct_start, ct_chunks, ct_windows, ct_pc>>

store_vars == <<forum_chunks, course_chunks>>

r_vars == <<r_question_embedding, r_returned, r_pc>>

q_vars == <<q_question_embedding, q_chunks, q_llm_calls, q_llm_output, q_response, q_pc>>

i_vars == <<i_forum_files, i_course_files, i_pc, i_file, i_post, i_pending_forum,
            i_pending_course, i_next_id, i_batches, i_run>>

cm_vars == <<cm_lines, cm_url, cm_section_title, cm_buffer, cm_line, cm_pc>>

vars == <<ct_vars, store_vars, r_vars, q_vars, i_vars, cm_vars>>

(***************************************************************************)
(* Bounds of the model                                                     *)
(***************************************************************************)
MaxTextLen == 5     \* longest text handed to chunk_text on its own
MaxChunkSize == 3   \* largest chunk_size handed to chunk_text on its own
MaxOverlap == 3     \* largest overlap handed to chunk_text on its own
MaxIter == 7        \* cap on loop iterations of a chunk_text that never ends
MaxRows == 3        \* most rows in the store when retrieval is called on its own
MaxQueryRows == 1   \* most rows in the store behind the /query handler
MaxSourceLines == 2 \* most lines after the Sources: marker in a model response
MaxDocLines == 4    \* most lines of a course file processed on its own
MaxForumFiles == 1  \* most .json files in FORUM_DIR
MaxCourseFiles == 1 \* most .md files in COURSE_DIR
MaxRuns == 2        \* most runs of main, one after the other

(***************************************************************************)
(* Python string helpers                                                   *)
(***************************************************************************)
Min(a, b) == IF a <= b THEN a ELSE b
Max(a, b) == IF a >= b THEN a ELSE b

\* str.isspace() characters that occur in the model
Whitespace == {" ", "\n"}

\* a slice index as Python clamps it: negative counts from the end
SliceIndex(i, n) == IF i < 0 THEN Max(n + i, 0) ELSE Min(i, n)

\* s[lo:hi]
Slice(s, lo, hi) ==
    LET a == SliceIndex(lo, Len(s))
        b == SliceIndex(hi, Len(s))
    IN  IF a < b THEN SubSeq(s, a + 1, b) ELSE << >>

RECURSIVE LStrip(_, _)
LStrip(s, cs) ==
    IF s # << >> /\ Head(s) \in cs THEN LStrip(Tail(s), cs) ELSE s

RECURSIVE RStrip(_, _)
RStrip(s, cs) ==
    IF s # << >> /\ s[Len(s)] \in cs THEN RStrip(SubSeq(s, 1, Len(s) - 1), cs) ELSE s

\* s.strip(cs)
StripChars(s, cs) == RStrip(LStrip(s, cs), cs)

\* s.strip()
Strip(s) == StripChars(s, Whitespace)

\* all strings over the alphabet cs of length at most n
RECURSIVE StringsUpTo(_, _)
StringsUpTo(cs, n) ==
    IF n = 0 THEN { << >> }
    ELSE LET shorter == StringsUpTo(cs, n - 1)
         IN  shorter \cup { Append(s, c) : s \in { t \in shorter : Len(t) = n - 1 }, c \in cs }

(***************************************************************************)
(* chunk_text: the sliding-window segmenter                                *)
(***************************************************************************)
\* chunk = text[start:end].strip() with end = start + chunk_size
WindowChunk(text, start, chunk_size) == Strip(Slice(text, start, start + chunk_size))

\* the index range text[start:end] reads
WindowRange(text, start, chunk_size) ==
    LET a == SliceIndex(start, Len(text))
        b == SliceIndex(start + chunk_size, Len(text))
    IN  [lo |-> a, hi |-> Max(a, b)]

\* if chunk: chunks.append(chunk)
AppendIfNonEmpty(chunks, chunk) == IF chunk # << >> THEN Append(chunks, chunk) ELSE chunks

\* mutant: the stride forgets the overlap
NextStart_NoOverlap(start, chunk_size, overlap) == start + chunk_size

\* a step that leaves start where it is
NextStart_Stalled(start, chunk_size, overlap) == start

\* start += chunk_size - overlap
NextStart(start, chunk_size, overlap) == start + (chunk_size - overlap)

\* while start < len(text)
LoopCondition(text, start) == start < Len(text)

\* chunk_text is not running
ct_Idle ==
    /\ ct_text = << >>
    /\ ct_size = 0
    /\ ct_overlap = 0
    /\ ct_start = 0
    /\ ct_chunks = << >>
    /\ ct_windows = << >>
    /\ ct_pc = "idle"

ct_Init ==
    /\ ct_text \in StringsUpTo({" ", "a"}, MaxTextLen)
    /\ ct_size \in 1..MaxChunkSize
    /\ ct_overlap \in 0..MaxOverlap
    /\ ct_start = 0
    /\ ct_chunks = << >>
    /\ ct_windows = << >>
    /\ ct_pc = "loop"

\* one iteration of the while loop
ct_Iterate ==
    /\ ct_pc = "loop"
    /\ LoopCondition(ct_text, ct_start)
    /\ Len(ct_windows) < MaxIter
    /\ ct_chunks' = AppendIfNonEmpty(ct_chunks, WindowChunk(ct_text, ct_start, ct_size))
    /\ ct_windows' = Append(ct_windows, WindowRange(ct_text, ct_start, ct_size))
    /\ ct_start' = NextStart(ct_start, ct_size, ct_overlap)
    /\ UNCHANGED <<ct_text, ct_size, ct_overlap, ct_pc>>

\* the loop condition fails: return chunks
ct_Return ==
    /\ ct_pc = "loop"
    /\ ~LoopCondition(ct_text, ct_start)
    /\ ct_pc' = "done"
    /\ UNCHANGED <<ct_text, ct_size, ct_overlap, ct_start, ct_chunks, ct_windows>>

ChunkNext ==
    \/ ct_Iterate /\ UNCHANGED <<store_vars, r_vars, q_vars, i_vars, cm_vars>>
    \/ ct_Return /\ UNCHANGED <<store_vars, r_vars, q_vars, i_vars, cm_vars>>

(***************************************************************************)
(* Retrieval: cosine_similarity and retrieve_similar_chunks                *)
(***************************************************************************)
\* Python's None; no string of the model equals it
None == <<"None">>

SIMILARITY_THRESHOLD_NUM == 2     \* SIMILARITY_THRESHOLD = 0.4 = 2/5
SIMILARITY_THRESHOLD_DEN == 5
MAX_RESULTS == 50

\* np.dot(a, b) for vectors of one length
RECURSIVE Dot(_, _)
Dot(a, b) == IF a = << >> THEN 0 ELSE Head(a) * Head(b) + Dot(Tail(a), Tail(b))

\* cosine_similarity(a, b) = dot / (|a| * |b|), kept exact: the value is
\* num / sqrt(den2); den2 = 0 is numpy's nan
cosine_similarity(a, b) == [num |-> Dot(a, b), den2 |-> Dot(a, a) * Dot(b, b)]

IsNan(x) == x.den2 = 0

\* the sign of x times the square of x, scaled by the other value's den2
SignedSquare(x, scale) == (IF x.num < 0 THEN -1 ELSE 1) * x.num * x.num * scale

\* x < y for two similarities that are not nan
SimLess(x, y) == SignedSquare(x, y.den2) < SignedSquare(y, x.den2)

SimEqual(x, y) == SignedSquare(x, y.den2) = SignedSquare(y, x.den2)

\* similarity >= SIMILARITY_THRESHOLD (a comparison with nan is False)
AtLeastThreshold(x) ==
    /\ ~IsNan(x)
    /\ x.num >= 0
    /\ SIMILARITY_THRESHOLD_DEN * SIMILARITY_THRESHOLD_DEN * x.num * x.num
           >= SIMILARITY_THRESHOLD_NUM * SIMILARITY_THRESHOLD_NUM * x.den2

Digits == {"0", "1", "2", "3", "4", "5", "6", "7", "8", "9"}

DigitValue(c) ==
    CASE c = "0" -> 0 [] c = "1" -> 1 [] c = "2" -> 2 [] c = "3" -> 3 [] c = "4" -> 4
      [] c = "5" -> 5 [] c = "6" -> 6 [] c = "7" -> 7 [] c = "8" -> 8 [] c = "9" -> 9

\* s.split("/")[-1]
RECURSIVE LastSegment(_)
LastSegment(s) ==
    IF s = << >> \/ s[Len(s)] = "/" THEN << >>
    ELSE Append(LastSegment(SubSeq(s, 1, Len(s) - 1)), s[Len(s)])

\* s.isdigit()
IsDigit(s) == s # << >> /\ \A i \in 1..Len(s) : s[i] \in Digits

\* int(s) for a string of digits
RECURSIVE ToInt(_)
ToInt(s) == IF s = << >> THEN 0 ELSE 10 * ToInt(SubSeq(s, 1, Len(s) - 1)) + DigitValue(s[Len(s)])

\* url.rstrip("/").split("/")[-1]
TrailingSegment(url) == LastSegment(RStrip(url, {"/"}))

\* int(seg) if seg.isdigit() else 0
PostNumberOf(url) == IF IsDigit(TrailingSegment(url)) THEN ToInt(TrailingSegment(url)) ELSE 0

\* the guard of line 80: len(emb) != len(question_embedding) -> continue
SameLength(emb, question_embedding) == Len(emb) = Len(question_embedding)

\* url.rstrip("/") raises AttributeError when url is None
UrlRaises(url) == url = None

\* what the body of the row loop does with one row:
\*   "continue"  the dimensions differ
\*   "below"     the similarity is under the threshold (or nan)
\*   "except"    building the dict raised; the row is logged and skipped
\*   "append"    the dict is appended to all_chunks
RowOutcome(row, question_embedding) ==
    IF ~SameLength(row.emb, question_embedding) THEN "continue"
    ELSE IF ~AtLeastThreshold(cosine_similarity(question_embedding, row.emb)) THEN "below"
    ELSE IF UrlRaises(row.url) THEN "except"
    ELSE "append"

\* the dict appended for a row
ChunkDict(table, row, question_embedding) ==
    [source |-> table,
     text |-> row.text,
     url |-> row.url,
     similarity |-> cosine_similarity(question_embedding, row.emb),
     post_number |-> PostNumberOf(row.url)]

\* the rows of one table, in cursor order, that reach all_chunks
RECURSIVE ScanTable(_, _, _)
ScanTable(table, rows, question_embedding) ==
    IF rows = << >> THEN << >>
    ELSE LET rest == ScanTable(table, Tail(rows), question_embedding)
         IN  IF RowOutcome(Head(rows), question_embedding) = "append"
             THEN <<ChunkDict(table, Head(rows), question_embedding)>> \o rest
             ELSE rest

\* mutant: the sort key is the similarity alone
KeyLess_SimilarityOnly(x, y) == SimLess(y.similarity, x.similarity)

\* key(x) < key(y) for key = (-similarity, -post_number)
KeyLess(x, y) ==
    \/ SimLess(y.similarity, x.similarity)
    \/ SimEqual(x.similarity, y.similarity) /\ x.post_number > y.post_number

\* insert x behind every element whose key is not greater (stable)
RECURSIVE InsertSorted(_, _)
InsertSorted(sorted, x) ==
    IF sorted = << >> THEN <<x>>
    ELSE IF KeyLess(x, Head(sorted)) THEN <<x>> \o sorted
    ELSE <<Head(sorted)>> \o InsertSorted(Tail(sorted), x)

\* sorted(all_chunks, key=...), Python's stable sort
RECURSIVE Sorted(_)
Sorted(list) ==
    IF list = << >> THEN << >>
    ELSE InsertSorted(Sorted(SubSeq(list, 1, Len(list) - 1)), list[Len(list)])

\* retrieve_similar_chunks with the question's embedding already fetched
retrieve_similar_chunks(forum, course, question_embedding, top_k) ==
    LET all_chunks == ScanTable("forum", forum, question_embedding)
                          \o ScanTable("course", course, question_embedding)
        ranked == Sorted(all_chunks)
    IN  SubSeq(ranked, 1, Min(top_k, Len(ranked)))

(***************************************************************************)
(* The store as the query service finds it                                 *)
(***************************************************************************)
\* embeddings json.loads can return from the store
StoredEmbeddings == { <<1>>, <<1, 0>>, <<2, 0>>, <<1, 2>>, <<1, 3>>, <<0, 0>> }

\* embeddings get_embedding can return for a question
QuestionEmbeddings == { <<1, 0>>, <<2, 1>> }

\* urls process_forum_json writes: .../t/{topic_id}/{post_number}
ForumUrls == { <<"t", "/", "1", "/", "2">>, <<"t", "/", "1", "/", "1", "2">> }

\* urls process_course_md writes: None without front matter, else original_url
CourseUrls == { None, <<"c", "/", "a">>, <<"c", "/", "7", "/">> }

ForumRows == [url : ForumUrls, emb : StoredEmbeddings]
CourseRows == [url : CourseUrls, emb : StoredEmbeddings]

\* all sequences over S of length n
RECURSIVE SeqsOfLen(_, _)
SeqsOfLen(S, n) ==
    IF n = 0 THEN { << >> }
    ELSE { Append(s, x) : s \in SeqsOfLen(S, n - 1), x \in S }

\* the text column: distinct for every row
WithText(table, rows) ==
    [i \in 1..Len(rows) |-> [url |-> rows[i].url, text |-> <<table, i>>, emb |-> rows[i].emb]]

store_Empty ==
    /\ forum_chunks = << >>
    /\ course_chunks = << >>

\* a store of at most max_rows rows drawn from the given row sets
store_Init(forum_rows, course_rows, max_rows) ==
    \E nf \in 0..max_rows : \E nc \in 0..(max_rows - nf) :
        /\ forum_chunks \in { WithText("forum", rows) : rows \in SeqsOfLen(forum_rows, nf) }
        /\ course_chunks \in { WithText("course", rows) : rows \in SeqsOfLen(course_rows, nc) }

\* the rows behind the /query handler: one forum url, a present and an absent
\* course url, an embedding near the question and one far from it
QueryForumRows == { r \in ForumRows : r.url = <<"t", "/", "1", "/", "2">> /\ r.emb \in {<<1, 0>>, <<1, 3>>} }
QueryCourseRows == { r \in CourseRows : r.url \in {None, <<"c", "/", "a">>} /\ r.emb \in {<<1, 0>>, <<1, 3>>} }

(***************************************************************************)
(* retrieve_similar_chunks called on its own                               *)
(***************************************************************************)
r_Idle ==
    /\ r_question_embedding = << >>
    /\ r_returned = << >>
    /\ r_pc = "idle"

r_Init ==
    /\ r_question_embedding = << >>
    /\ r_returned = << >>
    /\ r_pc = "call"

\* get_embedding answers and the function returns the ranked chunks
r_Retrieve ==
    /\ r_pc = "call"
    /\ \E e \in QuestionEmbeddings :
           /\ r_question_embedding' = e
           /\ r_returned' = retrieve_similar_chunks(forum_chunks, course_chunks, e, MAX_RESULTS)
    /\ r_pc' = "returned"
    /\ UNCHANGED <<ct_vars, store_vars, q_vars, i_vars, cm_vars>>

\* get_embedding raises: the function raises too
r_EmbeddingRaises ==
    /\ r_pc = "call"
    /\ r_pc' = "raised"
    /\ UNCHANGED <<r_question_embedding, r_returned, ct_vars, store_vars, q_vars, i_vars, cm_vars>>

RetrieveNext == r_Retrieve \/ r_EmbeddingRaises


(***************************************************************************)
(* query_virtual_ta: the /query handler and its parsing of the response    *)
(***************************************************************************)
SOURCES_MARKER == <<"S", "o", "u", "r", "c", "e", "s", ":">>
URL_LITERAL == <<"U", "R", "L", ":">>
TEXT_LITERAL == <<"T", "e", "x", "t", ":">>
NO_CONTENT_ANSWER == <<"I", " ", "c", "o", "u", "l", "d", "n", "'", "t", " ", "f", "i", "n", "d", " ", "r", "e", "l", "e", "v", "a", "n", "t", " ", "c", "o", "n", "t", "e", "n", "t", ".">>

\* s[i:].startswith(literal), i counted from 1
StartsWithAt(s, i, literal) ==
    /\ i >= 1
    /\ i + Len(literal) - 1 <= Len(s)
    /\ SubSeq(s, i, i + Len(literal) - 1) = literal

\* index of the first occurrence of literal in s, or 0
FindFirst(s, literal) ==
    LET hits == { i \in 1..Len(s) : StartsWithAt(s, i, literal) }
    IN  IF hits = {} THEN 0 ELSE CHOOSE i \in hits : \A j \in hits : i <= j

\* first index >= i whose character is in stop, or Len(s) + 1
RECURSIVE ScanUntil(_, _, _)
ScanUntil(s, i, stop) ==
    IF i > Len(s) \/ s[i] \in stop THEN Min(i, Len(s) + 1) ELSE ScanUntil(s, i + 1, stop)

\* first index >= i whose character is not in skip, or Len(s) + 1
RECURSIVE ScanWhile(_, _, _)
ScanWhile(s, i, skip) ==
    IF i > Len(s) \/ s[i] \notin skip THEN Min(i, Len(s) + 1) ELSE ScanWhile(s, i + 1, skip)

\* the regular expression  URL:\s*(\S+),\s*Text:\s*(.*)  tried at index i:
\* \s also matches a newline, \S+ is greedy and gives back characters until
\* a comma followed by \s*Text: is found, and . stops at a newline
MatchAt(s, i) ==
    IF ~StartsWithAt(s, i, URL_LITERAL) THEN [ok |-> FALSE]
    ELSE
      LET j == ScanWhile(s, i + Len(URL_LITERAL), Whitespace)
          k == ScanUntil(s, j, Whitespace)
          commas == { c \in (j + 1)..(k - 1) :
                        /\ s[c] = ","
                        /\ StartsWithAt(s, ScanWhile(s, c + 1, Whitespace), TEXT_LITERAL) }
      IN  IF commas = {} THEN [ok |-> FALSE]
          ELSE
            LET c == CHOOSE x \in commas : \A y \in commas : y <= x
                t == ScanWhile(s, c + 1, Whitespace)
                v == ScanWhile(s, t + Len(TEXT_LITERAL), Whitespace)
                e == ScanUntil(s, v, {"\n"})
            IN  [ok |-> TRUE, url |-> SubSeq(s, j, c - 1), text |-> SubSeq(s, v, e - 1), end |-> e]

\* Link(url=url.strip(), text=text.strip())
Link(url, text) == [url |-> Strip(url), text |-> Strip(text)]

\* re.finditer over s from index i on: the links of the successive matches
RECURSIVE FindIterLinks(_, _)
FindIterLinks(s, i) ==
    IF i > Len(s) THEN << >>
    ELSE LET m == MatchAt(s, i)
         IN  IF m.ok THEN <<Link(m.url, m.text)>> \o FindIterLinks(s, m.end)
             ELSE FindIterLinks(s, i + 1)

\* llm_output.split("Sources:", 1) when the marker is present, else (llm_output, "")
SplitOnSources(llm_output) ==
    LET at == FindFirst(llm_output, SOURCES_MARKER)
    IN  IF at = 0 THEN [answer_part |-> llm_output, sources_part |-> << >>]
        ELSE [answer_part |-> SubSeq(llm_output, 1, at - 1),
              sources_part |-> SubSeq(llm_output, at + Len(SOURCES_MARKER), Len(llm_output))]

\* lines 181-191: the QueryResponse built from llm_output
ParseResponse(llm_output) ==
    LET parts == SplitOnSources(llm_output)
    IN  [answer |-> Strip(parts.answer_part), links |-> FindIterLinks(parts.sources_part, 1)]

\* mutant: the empty-retrieval check is missing
NoChunks_Unchecked(chunks) == FALSE

\* if not chunks
NoChunks(chunks) == chunks = << >>

\* answers the generative model may open its response with
AnswerTexts == { <<"1", ".", " ", "o", "k", "\n", "\n">>, <<" ", "n", "o">> }

\* lines the generative model may write after the marker
SourceLines == {
    <<"1", ".", " ", "U", "R", "L", ":", " ", "a", ",", " ", "T", "e", "x", "t", ":", " ", "x">>,
    <<"U", "R", "L", ":", "b", ",", "T", "e", "x", "t", ":", "y", " ">>,
    <<"U", "R", "L", ":", " ", "a", ",">>,
    <<"T", "e", "x", "t", ":", " ", "x">>,
    <<"U", "R", "L", ":", " ", "a", ",", " ", "T", "e", "x", "t", ":">>,
    <<"U", "R", "L", ":", " ", "a", " ", "b", ",", " ", "T", "e", "x", "t", ":", " ", "x">>,
    <<"x">>,
    << >>,
    SOURCES_MARKER }

\* s + "\n" + line for every line
RECURSIVE JoinLines(_)
JoinLines(lines) ==
    IF lines = << >> THEN << >> ELSE <<"\n">> \o Head(lines) \o JoinLines(Tail(lines))

\* responses of the generative model: an answer alone, or an answer, the
\* marker and up to MaxSourceLines lines
LLMOutputs ==
    AnswerTexts \cup
    { a \o SOURCES_MARKER \o JoinLines(ls) :
        a \in AnswerTexts,
        ls \in UNION { SeqsOfLen(SourceLines, n) : n \in 0..MaxSourceLines } }

NoResponse == [answer |-> None, links |-> << >>]

q_Idle ==
    /\ q_question_embedding = << >>
    /\ q_chunks = << >>
    /\ q_llm_calls = 0
    /\ q_llm_output = << >>
    /\ q_response = NoResponse
    /\ q_pc = "idle"

q_Init ==
    /\ q_question_embedding = << >>
    /\ q_chunks = << >>
    /\ q_llm_calls = 0
    /\ q_llm_output = << >>
    /\ q_response = NoResponse
    /\ q_pc = "start"

\* lines 173-177: retrieval returns nothing, the fixed answer is returned
q_NoContent ==
    /\ q_pc = "start"
    /\ \E e \in QuestionEmbeddings :
         LET chunks == retrieve_similar_chunks(forum_chunks, course_chunks, e, MAX_RESULTS)
         IN  /\ NoChunks(chunks)
             /\ q_question_embedding' = e
             /\ q_chunks' = chunks
    /\ q_response' = [answer |-> NO_CONTENT_ANSWER, links |-> << >>]
    /\ q_pc' = "done"
    /\ UNCHANGED <<q_llm_calls, q_llm_output, ct_vars, store_vars, r_vars, i_vars, cm_vars>>

\* lines 173-179: retrieval returns chunks, the request to the model is sent
q_AskModel ==
    /\ q_pc = "start"
    /\ \E e \in QuestionEmbeddings :
         LET chunks == retrieve_similar_chunks(forum_chunks, course_chunks, e, MAX_RESULTS)
         IN  /\ ~NoChunks(chunks)
             /\ q_question_embedding' = e
             /\ q_chunks' = chunks
    /\ q_llm_calls' = q_llm_calls + 1
    /\ q_pc' = "awaiting"
    /\ UNCHANGED <<q_llm_output, q_response, ct_vars, store_vars, r_vars, i_vars, cm_vars>>

\* get_embedding raises inside retrieve_similar_chunks: the request fails
q_EmbeddingRaises ==
    /\ q_pc = "start"
    /\ q_pc' = "error"
    /\ UNCHANGED <<q_question_embedding, q_chunks, q_llm_calls, q_llm_output, q_response,
                   ct_vars, store_vars, r_vars, i_vars, cm_vars>>

\* lines 148-152, 181-191: the model answers with status 200 and the
\* response is parsed
q_ModelAnswers ==
    /\ q_pc = "awaiting"
    /\ \E out \in LLMOutputs :
           /\ q_llm_output' = out
           /\ q_response' = ParseResponse(out)
    /\ q_pc' = "done"
    /\ UNCHANGED <<q_question_embedding, q_chunks, q_llm_calls, ct_vars, store_vars, r_vars, i_vars, cm_vars>>

\* lines 148-150: the model answers with another status, HTTPException
q_ModelFails ==
    /\ q_pc = "awaiting"
    /\ q_pc' = "error"
    /\ UNCHANGED <<q_question_embedding, q_chunks, q_llm_calls, q_llm_output, q_response,
                   ct_vars, store_vars, r_vars, i_vars, cm_vars>>

QueryNext ==
    \/ q_NoContent
    \/ q_AskModel
    \/ q_EmbeddingRaises
    \/ q_ModelAnswers
    \/ q_ModelFails

(***************************************************************************)
(* Ingestion: chunk_text and embed as process_* call them                  *)
(***************************************************************************)
CHUNK_SIZE == 750
CHUNK_OVERLAP == 70

\* the while loop of chunk_text from a given start on
RECURSIVE ChunkTextFrom(_, _, _, _)
ChunkTextFrom(text, chunk_size, overlap, start) ==
    IF ~LoopCondition(text, start) THEN << >>
    ELSE AppendIfNonEmpty(<< >>, WindowChunk(text, start, chunk_size))
             \o ChunkTextFrom(text, chunk_size, overlap, NextStart(start, chunk_size, overlap))

\* chunk_text(text) with the default chunk_size and overlap
chunk_text(text) == ChunkTextFrom(text, CHUNK_SIZE, CHUNK_OVERLAP, 0)

\* the embedding the provider computes for one text
EmbeddingOf(text) == [of |-> text]

\* the vectors the provider returns for the texts, one each, in order
ExactEmbeddings(texts) == [i \in 1..Len(texts) |-> EmbeddingOf(texts[i])]

\* what embed(texts) can return when the call succeeds: the provider's
\* answer is passed on unchecked, so besides one vector per text it may be
\* one short (the last or the first vector missing) or one long
EmbedReturns(texts) ==
    LET exact == ExactEmbeddings(texts)
    IN  { exact,
          SubSeq(exact, 1, Len(exact) - 1),
          SubSeq(exact, 2, Len(exact)),
          Append(exact, EmbeddingOf(<< >>)) }

\* list(zip(chunks, embeddings)): pairs up to the shorter length
Zip(chunks, embeddings) ==
    [i \in 1..Min(Len(chunks), Len(embeddings)) |-> [chunk |-> chunks[i], emb |-> embeddings[i]]]

\* the history entry of one answered embed() call
Batch(file, chunks, embeddings) ==
    [file |-> file,
     chunks |-> chunks,
     returned |-> Len(embeddings),
     stored |-> Zip(chunks, embeddings)]

(***************************************************************************)
(* process_course_md                                                       *)
(***************************************************************************)
FRONT_MATTER_DELIMITER == <<"-", "-", "-">>
URL_FIELD == <<"o", "r", "i", "g", "i", "n", "a", "l", "_", "u", "r", "l", ":">>

\* s.startswith(prefix)
StartsWith(s, prefix) == StartsWithAt(s, 1, prefix)

\* line.split(":", 1)[1] for a line that holds a colon
AfterFirstColon(line) == SubSeq(line, ScanUntil(line, 1, {":"}) + 1, Len(line))

\* lines[i].split(":", 1)[1].strip().strip('"')
UrlValue(line) == StripChars(Strip(AfterFirstColon(line)), {"\""})

\* the for loop of lines 106-111 from index i on (lines counted from 1):
\* the url found so far and the lines left for chunking
RECURSIVE ScanFrontMatter(_, _, _)
ScanFrontMatter(lines, i, url) ==
    IF i > Len(lines) THEN [url |-> url, lines |-> lines]
    ELSE IF StartsWith(Strip(lines[i]), URL_FIELD)
         THEN ScanFrontMatter(lines, i + 1, UrlValue(lines[i]))
    ELSE IF Strip(lines[i]) = FRONT_MATTER_DELIMITER
         THEN [url |-> url, lines |-> SubSeq(lines, i + 1, Len(lines))]
    ELSE ScanFrontMatter(lines, i + 1, url)

\* lines 104-111
FrontMatter(lines) ==
    IF lines # << >> /\ Strip(lines[1]) = FRONT_MATTER_DELIMITER
    THEN ScanFrontMatter(lines, 2, None)
    ELSE [url |-> None, lines |-> lines]

\* no line is taken for a heading
IsHeading_Never(line) == FALSE

\* line.strip().startswith("#")
IsHeading(line) == StartsWith(Strip(line), <<"#">>)

\* line.strip("# ").strip()
HeadingTitle(line) == Strip(StripChars(line, {"#", " "}))

\* if buffer.strip()
BufferHasText(buffer) == Strip(buffer) # << >>

\* the rows inserted for zip(chunks, embeddings), chunk ids from next_id on
CourseRowsOf(file, section_title, url, pairs, next_id) ==
    [i \in 1..Len(pairs) |->
        [chunk_id |-> next_id + i,
         source_file |-> file,
         section_title |-> section_title,
         url |-> url,
         text |-> pairs[i].chunk,
         embedding |-> pairs[i].emb]]

\* process_course_md is not running
cm_Idle ==
    /\ cm_lines = << >>
    /\ cm_url = None
    /\ cm_section_title = << >>
    /\ cm_buffer = << >>
    /\ cm_line = 0
    /\ cm_pc = "idle"

\* process_course_md has just been called
cm_Called ==
    /\ cm_lines = << >>
    /\ cm_url = None
    /\ cm_section_title = << >>
    /\ cm_buffer = << >>
    /\ cm_line = 0
    /\ cm_pc = "front"

\* lines 101-115: read the file, take the front matter off
cm_ReadFile ==
    /\ i_pc = "course"
    /\ cm_pc = "front"
    /\ LET fm == FrontMatter(i_course_files[i_file].lines)
       IN  /\ cm_lines' = fm.lines
           /\ cm_url' = fm.url
    /\ cm_section_title' = << >>
    /\ cm_buffer' = << >>
    /\ cm_line' = 1
    /\ cm_pc' = "lines"
    /\ UNCHANGED <<ct_vars, store_vars, r_vars, q_vars, i_vars>>

\* lines 119-133 and 140-154: chunk the buffer, embed, insert the pairs
cm_Flush(embeddings) ==
    LET chunks == chunk_text(cm_buffer)
        pairs == Zip(chunks, embeddings)
    IN  /\ i_pending_course' = i_pending_course \o
               CourseRowsOf(i_course_files[i_file].name, cm_section_title, cm_url,
                            pairs, i_next_id)
        /\ i_next_id' = i_next_id + Len(pairs)
        /\ i_batches' = Append(i_batches, Batch(i_course_files[i_file].name, chunks, embeddings))

\* lines 116-137, a line that is not a heading
cm_TextLine ==
    /\ i_pc = "course"
    /\ cm_pc = "lines"
    /\ cm_line <= Len(cm_lines)
    /\ ~IsHeading(cm_lines[cm_line])
    /\ cm_buffer' = cm_buffer \o cm_lines[cm_line] \o <<"\n">>
    /\ cm_line' = cm_line + 1
    /\ UNCHANGED <<cm_lines, cm_url, cm_section_title, cm_pc,
                   ct_vars, store_vars, r_vars, q_vars, i_vars>>

\* lines 117-135, a heading with nothing to flush
cm_HeadingLine ==
    /\ i_pc = "course"
    /\ cm_pc = "lines"
    /\ cm_line <= Len(cm_lines)
    /\ IsHeading(cm_lines[cm_line])
    /\ ~BufferHasText(cm_buffer)
    /\ cm_section_title' = HeadingTitle(cm_lines[cm_line])
    /\ cm_line' = cm_line + 1
    /\ UNCHANGED <<cm_lines, cm_url, cm_buffer, cm_pc,
                   ct_vars, store_vars, r_vars, q_vars, i_vars>>

\* lines 117-135, a heading that flushes the buffer
cm_HeadingFlush ==
    /\ i_pc = "course"
    /\ cm_pc = "lines"
    /\ cm_line <= Len(cm_lines)
    /\ IsHeading(cm_lines[cm_line])
    /\ BufferHasText(cm_buffer)
    /\ \E embeddings \in EmbedReturns(chunk_text(cm_buffer)) : cm_Flush(embeddings)
    /\ cm_buffer' = << >>
    /\ cm_section_title' = HeadingTitle(cm_lines[cm_line])
    /\ cm_line' = cm_line + 1
    /\ UNCHANGED <<cm_lines, cm_url, cm_pc, ct_vars, store_vars, r_vars, q_vars,
                   i_run, i_forum_files, i_course_files, i_pc, i_file, i_post, i_pending_forum>>

\* lines 139-156, the end of the file with nothing to flush
cm_EndOfFile ==
    /\ i_pc = "course"
    /\ cm_pc = "lines"
    /\ cm_line > Len(cm_lines)
    /\ ~BufferHasText(cm_buffer)
    /\ cm_pc' = "returned"
    /\ UNCHANGED <<cm_lines, cm_url, cm_section_title, cm_buffer, cm_line,
                   ct_vars, store_vars, r_vars, q_vars, i_vars>>

\* lines 139-156, the end of the file flushes the buffer
cm_EndOfFileFlush ==
    /\ i_pc = "course"
    /\ cm_pc = "lines"
    /\ cm_line > Len(cm_lines)
    /\ BufferHasText(cm_buffer)
    /\ \E embeddings \in EmbedReturns(chunk_text(cm_buffer)) : cm_Flush(embeddings)
    /\ cm_pc' = "returned"
    /\ UNCHANGED <<cm_lines, cm_url, cm_section_title, cm_buffer, cm_line,
                   ct_vars, store_vars, r_vars, q_vars,
                   i_run, i_forum_files, i_course_files, i_pc, i_file, i_post, i_pending_forum>>

\* lines 120 and 141: embed raises and process_course_md does not catch it
cm_EmbedRaises ==
    /\ i_pc = "course"
    /\ cm_pc = "lines"
    /\ BufferHasText(cm_buffer)
    /\ IF cm_line > Len(cm_lines) THEN TRUE ELSE IsHeading(cm_lines[cm_line])
    /\ cm_pc' = "raised"
    /\ UNCHANGED <<cm_lines, cm_url, cm_section_title, cm_buffer, cm_line,
                   ct_vars, store_vars, r_vars, q_vars, i_vars>>

CourseFileNext ==
    \/ cm_ReadFile
    \/ cm_TextLine
    \/ cm_HeadingLine
    \/ cm_HeadingFlush
    \/ cm_EndOfFile
    \/ cm_EndOfFileFlush
    \/ cm_EmbedRaises

\* lines a course file may hold
CourseLines == {
    FRONT_MATTER_DELIMITER,
    <<"o", "r", "i", "g", "i", "n", "a", "l", "_", "u", "r", "l", ":", " ", "\"", "h", "\"">>,
    <<"#", " ", "T">>,
    <<"x">>,
    << >> }

\* main is not running
i_Idle ==
    /\ i_forum_files = << >>
    /\ i_course_files = << >>
    /\ i_pc = "idle"
    /\ i_file = 0
    /\ i_post = 0
    /\ i_pending_forum = << >>
    /\ i_pending_course = << >>
    /\ i_next_id = 0
    /\ i_batches = << >>
    /\ i_run = 0

\* process_course_md called on one file of up to MaxDocLines lines, on a
\* connection with nothing pending
i_OneCourseFile ==
    /\ i_forum_files = << >>
    /\ i_course_files \in
           { <<[name |-> "a.md", lines |-> ls]>> :
               ls \in UNION { SeqsOfLen(CourseLines, n) : n \in 0..MaxDocLines } }
    /\ i_pc = "course"
    /\ i_file = 1
    /\ i_post = 0
    /\ i_pending_forum = << >>
    /\ i_pending_course = << >>
    /\ i_next_id = 0
    /\ i_batches = << >>
    /\ i_run = 1

(***************************************************************************)
(* process_forum_json and main                                             *)
(***************************************************************************)
FORUM_URL_PREFIX == <<"h", "t", "t", "p", "s", ":", "/", "/", "d", "i", "s", "c", "o", "u", "r", "s", "e", ".", "o", "n", "l", "i", "n", "e", "d", "e", "g", "r", "e", "e", ".", "i", "i", "t", "m", ".", "a", "c", ".", "i", "n", "/", "t", "/">>

DigitChar(d) ==
    CASE d = 0 -> "0" [] d = 1 -> "1" [] d = 2 -> "2" [] d = 3 -> "3" [] d = 4 -> "4"
      [] d = 5 -> "5" [] d = 6 -> "6" [] d = 7 -> "7" [] d = 8 -> "8" [] d = 9 -> "9"

\* str(n) for n >= 0
RECURSIVE IntToStr(_)
IntToStr(n) == IF n < 10 THEN <<DigitChar(n)>> ELSE Append(IntToStr(n \div 10), DigitChar(n % 10))

\* f"https://discourse.onlinedegree.iitm.ac.in/t/{post['topic_id']}/{post['post_number']}"
ForumUrl(post) ==
    FORUM_URL_PREFIX \o IntToStr(post.topic_id) \o <<"/">> \o IntToStr(post.post_number)

\* the rows inserted for zip(chunks, embeddings) of one post
ForumRowsOf(post, pairs, next_id) ==
    [i \in 1..Len(pairs) |->
        [chunk_id |-> next_id + i,
         post_id |-> post.post_id,
         post_number |-> post.post_number,
         topic_id |-> post.topic_id,
         topic_title |-> post.topic_title,
         author |-> post.author,
         url |-> ForumUrl(post),
         text |-> pairs[i].chunk,
         embedding |-> pairs[i].emb]]

\* a text of 700 characters: chunk_text cuts it into two chunks
LongText == [i \in 1..700 |-> "x"]

\* the post at place number of topic topic_id
Post(topic_id, number, content) ==
    [post_id |-> 10 * topic_id + number,
     post_number |-> number,
     topic_id |-> topic_id,
     topic_title |-> "title",
     author |-> "author",
     content |-> content]

\* the .json files FORUM_DIR may hold
ForumFiles == {
    <<Post(1, 1, <<"x">>)>>,
    <<Post(2, 1, <<" ">>), Post(2, 2, LongText)>> }

\* the .md files COURSE_DIR may hold
CourseFiles == {
    [name |-> "a.md", lines |-> <<<<"x">>, <<"#", " ", "T">>, <<"y">>>>],
    [name |-> "b.md", lines |-> <<FRONT_MATTER_DELIMITER, <<"o", "r", "i", "g", "i", "n", "a", "l", "_", "u", "r", "l", ":", " ", "\"", "h", "\"">>,
                                  FRONT_MATTER_DELIMITER, LongText>>],
    [name |-> "c.md", lines |-> <<<<"#", " ", "T">>>>] }

\* rows a run before this one has committed
PreviousForumRows ==
    ForumRowsOf(Post(9, 9, <<"o">>), Zip(<<<<"o">>>>, ExactEmbeddings(<<<<"o">>>>)), 900)
PreviousCourseRows ==
    CourseRowsOf("old.md", << >>, None, Zip(<<<<"o">>>>, ExactEmbeddings(<<<<"o">>>>)), 950)

\* main is called: any files in the two directories, and a store that is
\* new or holds what an earlier run has committed
i_Init ==
    /\ i_forum_files \in UNION { SeqsOfLen(ForumFiles, n) : n \in 0..MaxForumFiles }
    /\ i_course_files \in UNION { SeqsOfLen(CourseFiles, n) : n \in 0..MaxCourseFiles }
    /\ i_pc = "start"
    /\ i_file = 0
    /\ i_post = 0
    /\ i_pending_forum = << >>
    /\ i_pending_course = << >>
    /\ i_next_id = 0
    /\ i_batches = << >>
    /\ i_run = 1

store_Previous ==
    \/ store_Empty
    \/ forum_chunks = PreviousForumRows /\ course_chunks = PreviousCourseRows

\* a create_db that creates the tables only where they are missing and
\* keeps the rows they hold
i_CreateDb_KeepsTables ==
    /\ i_pc = "start"
    /\ i_pc' = "forum"
    /\ i_file' = 1
    /\ i_post' = 0
    /\ UNCHANGED <<i_run, i_forum_files, i_course_files, i_pending_forum, i_pending_course,
                   i_next_id, i_batches, ct_vars, store_vars, r_vars, q_vars, cm_vars>>

\* create_db: both tables are dropped and created again; sqlite3 runs the
\* DROP and CREATE statements outside any transaction, so they are durable
\* at once
i_CreateDb ==
    /\ i_pc = "start"
    /\ forum_chunks' = << >>
    /\ course_chunks' = << >>
    /\ i_pc' = "forum"
    /\ i_file' = 1
    /\ i_post' = 0
    /\ UNCHANGED <<i_run, i_forum_files, i_course_files, i_pending_forum, i_pending_course,
                   i_next_id, i_batches, ct_vars, r_vars, q_vars, cm_vars>>

\* lines 162-164, 72-75: process_forum_json is called and loads the posts
i_OpenForumFile ==
    /\ i_pc = "forum"
    /\ i_post = 0
    /\ i_file <= Len(i_forum_files)
    /\ i_post' = 1
    /\ UNCHANGED <<i_run, i_forum_files, i_course_files, i_pc, i_file, i_pending_forum,
                   i_pending_course, i_next_id, i_batches,
                   ct_vars, store_vars, r_vars, q_vars, cm_vars>>

\* the post the for loop of process_forum_json is at
CurrentPost == i_forum_files[i_file][i_post]

InForumFile ==
    /\ i_pc = "forum"
    /\ i_file <= Len(i_forum_files)
    /\ i_post >= 1
    /\ i_post <= Len(i_forum_files[i_file])

\* lines 77-79: a post without chunks is skipped
i_PostWithoutChunks ==
    /\ InForumFile
    /\ chunk_text(CurrentPost.content) = << >>
    /\ i_post' = i_post + 1
    /\ UNCHANGED <<i_run, i_forum_files, i_course_files, i_pc, i_file, i_pending_forum,
                   i_pending_course, i_next_id, i_batches,
                   ct_vars, store_vars, r_vars, q_vars, cm_vars>>

\* the same on a connection in autocommit mode: every insert is durable at
\* once
i_PostInserted_Autocommit ==
    /\ InForumFile
    /\ LET chunks == chunk_text(CurrentPost.content)
       IN  /\ chunks # << >>
           /\ \E embeddings \in EmbedReturns(chunks) :
                LET pairs == Zip(chunks, embeddings)
                IN  /\ forum_chunks' =
                           forum_chunks \o ForumRowsOf(CurrentPost, pairs, i_next_id)
                    /\ i_next_id' = i_next_id + Len(pairs)
                    /\ i_batches' = Append(i_batches, Batch(i_file, chunks, embeddings))
    /\ i_post' = i_post + 1
    /\ UNCHANGED <<i_run, i_forum_files, i_course_files, i_pc, i_file, i_pending_forum,
                   i_pending_course, course_chunks, ct_vars, r_vars, q_vars, cm_vars>>

\* lines 77-96: the chunks of a post are embedded and the pairs inserted
i_PostInserted ==
    /\ InForumFile
    /\ LET chunks == chunk_text(CurrentPost.content)
       IN  /\ chunks # << >>
           /\ \E embeddings \in EmbedReturns(chunks) :
                LET pairs == Zip(chunks, embeddings)
                IN  /\ i_pending_forum' =
                           i_pending_forum \o ForumRowsOf(CurrentPost, pairs, i_next_id)
                    /\ i_next_id' = i_next_id + Len(pairs)
                    /\ i_batches' = Append(i_batches, Batch(i_file, chunks, embeddings))
    /\ i_post' = i_post + 1
    /\ UNCHANGED <<i_run, i_forum_files, i_course_files, i_pc, i_file, i_pending_course,
                   ct_vars, store_vars, r_vars, q_vars, cm_vars>>

\* the exception leaves main: the process ends without conn.commit(), and
\* what was inserted on conn is rolled back
Aborted ==
    /\ i_pc' = "aborted"
    /\ i_pending_forum' = << >>
    /\ i_pending_course' = << >>

\* line 80: embed raises; neither process_forum_json nor main catches it
i_PostEmbedRaises ==
    /\ InForumFile
    /\ chunk_text(CurrentPost.content) # << >>
    /\ Aborted
    /\ UNCHANGED <<i_run, i_forum_files, i_course_files, i_file, i_post, i_next_id, i_batches,
                   ct_vars, store_vars, r_vars, q_vars, cm_vars>>

\* line 97: process_forum_json returns, main goes on to the next file
i_ForumFileDone ==
    /\ i_pc = "forum"
    /\ i_file <= Len(i_forum_files)
    /\ i_post > Len(i_forum_files[i_file])
    /\ i_file' = i_file + 1
    /\ i_post' = 0
    /\ UNCHANGED <<i_run, i_forum_files, i_course_files, i_pc, i_pending_forum,
                   i_pending_course, i_next_id, i_batches,
                   ct_vars, store_vars, r_vars, q_vars, cm_vars>>

\* lines 166-167: the forum files are done, the course files are next
i_ForumDirDone ==
    /\ i_pc = "forum"
    /\ i_post = 0
    /\ i_file > Len(i_forum_files)
    /\ i_pc' = "course"
    /\ i_file' = 1
    /\ UNCHANGED <<i_run, i_forum_files, i_course_files, i_post, i_pending_forum,
                   i_pending_course, i_next_id, i_batches,
                   ct_vars, store_vars, r_vars, q_vars, cm_vars>>

\* lines 167-169: process_course_md is called on the next file
i_OpenCourseFile ==
    /\ i_pc = "course"
    /\ cm_pc = "idle"
    /\ i_file <= Len(i_course_files)
    /\ cm_pc' = "front"
    /\ UNCHANGED <<cm_lines, cm_url, cm_section_title, cm_buffer, cm_line,
                   ct_vars, store_vars, r_vars, q_vars, i_vars>>

\* process_course_md has returned, main goes on to the next file
i_CourseFileDone ==
    /\ i_pc = "course"
    /\ cm_pc = "returned"
    /\ i_file' = i_file + 1
    /\ cm_lines' = << >>
    /\ cm_url' = None
    /\ cm_section_title' = << >>
    /\ cm_buffer' = << >>
    /\ cm_line' = 0
    /\ cm_pc' = "idle"
    /\ UNCHANGED <<i_run, i_forum_files, i_course_files, i_pc, i_post, i_pending_forum,
                   i_pending_course, i_next_id, i_batches,
                   ct_vars, store_vars, r_vars, q_vars>>

\* process_course_md has raised; main does not catch it
i_CourseFileRaised ==
    /\ i_pc = "course"
    /\ cm_pc = "raised"
    /\ Aborted
    /\ UNCHANGED <<i_run, i_forum_files, i_course_files, i_file, i_post, i_next_id, i_batches,
                   ct_vars, store_vars, r_vars, q_vars, cm_vars>>

\* lines 171-173: conn.commit() makes every insert of the run durable
i_Commit ==
    /\ i_pc = "course"
    /\ cm_pc = "idle"
    /\ i_file > Len(i_course_files)
    /\ forum_chunks' = forum_chunks \o i_pending_forum
    /\ course_chunks' = course_chunks \o i_pending_course
    /\ i_pending_forum' = << >>
    /\ i_pending_course' = << >>
    /\ i_pc' = "done"
    /\ UNCHANGED <<i_run, i_forum_files, i_course_files, i_file, i_post, i_next_id, i_batches,
                   ct_vars, r_vars, q_vars, cm_vars>>

\* uuid4 never hands out one id twice: the ids of run n are taken from
\* (n - 1) * IdsPerRun + 1 onwards, and no run of the model inserts as many
\* as IdsPerRun rows
IdsPerRun == 100
RunFirstId(run) == (run - 1) * IdsPerRun

\* lines 175-176: main is started again on the same directories and the same
\* database file after a run has ended, by its commit or by an exception
i_RunAgain ==
    /\ i_pc \in {"done", "aborted"}
    /\ i_run < MaxRuns
    /\ i_run' = i_run + 1
    /\ i_pc' = "start"
    /\ i_file' = 0
    /\ i_post' = 0
    /\ i_pending_forum' = << >>
    /\ i_pending_course' = << >>
    /\ i_next_id' = RunFirstId(i_run + 1)
    /\ i_batches' = << >>
    /\ cm_lines' = << >>
    /\ cm_url' = None
    /\ cm_section_title' = << >>
    /\ cm_buffer' = << >>
    /\ cm_line' = 0
    /\ cm_pc' = "idle"
    /\ UNCHANGED <<i_forum_files, i_course_files, ct_vars, store_vars, r_vars, q_vars>>

IngestNext ==
    \/ i_CreateDb
    \/ i_OpenForumFile
    \/ i_PostWithoutChunks
    \/ i_PostInserted
    \/ i_PostEmbedRaises
    \/ i_ForumFileDone
    \/ i_ForumDirDone
    \/ i_OpenCourseFile
    \/ CourseFileNext
    \/ i_CourseFileDone
    \/ i_CourseFileRaised
    \/ i_Commit
    \/ i_RunAgain

(***************************************************************************)
(* Specifications                                                          *)
(***************************************************************************)
\* chunk_text called with any text, chunk_size and overlap
ChunkInit == ct_Init /\ store_Empty /\ r_Idle /\ q_Idle /\ i_Idle /\ cm_Idle

SpecChunk == ChunkInit /\ [][ChunkNext]_vars

\* the same, where a loop that can take a step takes it: the interpreter
\* does not stop in the middle of a running call
FairSpecChunk == ChunkInit /\ [][ChunkNext]_vars /\ WF_vars(ChunkNext)

\* retrieve_similar_chunks called on any store
RetrieveInit == ct_Idle /\ store_Init(ForumRows, CourseRows, MaxRows) /\ r_Init /\ q_Idle /\ i_Idle /\ cm_Idle

SpecRetrieve == RetrieveInit /\ [][RetrieveNext]_vars

\* one /query request against any store
QueryInit == ct_Idle /\ store_Init(QueryForumRows, QueryCourseRows, MaxQueryRows) /\ r_Idle /\ q_Init /\ i_Idle /\ cm_Idle

SpecQuery == QueryInit /\ [][QueryNext]_vars

\* process_course_md called on any one course file
CourseInit == ct_Idle /\ store_Empty /\ r_Idle /\ q_Idle /\ i_OneCourseFile /\ cm_Called

SpecCourse == CourseInit /\ [][CourseFileNext]_vars

\* one run of main
IngestInit == ct_Idle /\ store_Previous /\ r_Idle /\ q_Idle /\ i_Init /\ cm_Idle

SpecIngest == IngestInit /\ [][IngestNext]_vars

(***************************************************************************)
(* Claims about chunk_text, checked under SpecChunk                        *)
(***************************************************************************)
\* ceil(a / b) for b > 0
CeilDiv(a, b) == -((-a) \div b)

\* number of characters two index ranges have in common
Shared(w1, w2) == Max(Min(w1.hi, w2.hi) - Max(w1.lo, w2.lo), 0)

\* every character of the text lies in some window
WindowsCoverText ==
    \A i \in 0..(Len(ct_text) - 1) :
        \E k \in 1..Len(ct_windows) : ct_windows[k].lo <= i /\ i < ct_windows[k].hi

\* every emitted chunk is trimmed and non-empty
NoEmptyChunk ==
    \A k \in 1..Len(ct_chunks) : ct_chunks[k] # << >> /\ Strip(ct_chunks[k]) = ct_chunks[k]

\* C5 as stated: for L > O a finished chunk_text has cut ceil((n-O)/(L-O))
\* windows that cover the text, every pair of consecutive windows other than
\* the pair ending in the last window shares exactly O characters, and no
\* emitted chunk is empty after trimming.  (Stated only for texts at least
\* one window long, where the claimed count is positive.)
C5_AsStated ==
    (ct_pc = "done" /\ ct_size > ct_overlap /\ Len(ct_text) >= ct_size) =>
        /\ Len(ct_windows) = CeilDiv(Len(ct_text) - ct_overlap, ct_size - ct_overlap)
        /\ WindowsCoverText
        /\ \A k \in 1..(Len(ct_windows) - 2) :
               Shared(ct_windows[k], ct_windows[k + 1]) = ct_overlap
        /\ NoEmptyChunk

\* C5 amended: for L > O a finished chunk_text has cut ceil(n/(L-O)) windows
\* that cover the text, every window of full length L shares exactly O
\* characters with the window after it, and no emitted chunk is empty after
\* trimming.
C5_WindowsCoverWithOverlap ==
    (ct_pc = "done" /\ ct_size > ct_overlap) =>
        /\ Len(ct_windows) = CeilDiv(Len(ct_text), ct_size - ct_overlap)
        /\ WindowsCoverText
        /\ \A k \in 1..(Len(ct_windows) - 1) :
               (ct_windows[k].hi - ct_windows[k].lo = ct_size) =>
                   Shared(ct_windows[k], ct_windows[k + 1]) = ct_overlap
        /\ NoEmptyChunk

\* a finished run with a real overlap, at least three windows, a short last
\* window and a whitespace-only window that was dropped
C5_Witness ==
    /\ ct_pc = "done"
    /\ ct_size > ct_overlap
    /\ ct_overlap > 0
    /\ Len(ct_windows) >= 3
    /\ ct_windows[Len(ct_windows)].hi - ct_windows[Len(ct_windows)].lo < ct_size
    /\ Len(ct_chunks) < Len(ct_windows)
    /\ ct_chunks # << >>

\* C6 as stated: with a non-positive stride (chunk_size <= overlap) and a
\* non-empty text the segmenter stops with a configuration error before it
\* runs an iteration or emits a chunk.
C6_NonPositiveStrideIsFatal ==
    (ct_size <= ct_overlap /\ ct_text # << >>) =>
        \/ ct_pc = "error"
        \/ ct_pc = "loop" /\ ct_windows = << >> /\ ct_chunks = << >>

(***************************************************************************)
(* Claims about retrieve_similar_chunks, checked under SpecRetrieve        *)
(***************************************************************************)
\* the stored rows with the table each is in
StoredRows ==
    { <<"forum", forum_chunks[i]>> : i \in 1..Len(forum_chunks) }
        \cup { <<"course", course_chunks[i]>> : i \in 1..Len(course_chunks) }

\* the positions of a stored row in the returned list
PositionsOf(table, row) ==
    { i \in 1..Len(r_returned) :
        r_returned[i].source = table /\ r_returned[i].text = row.text }

\* same dimensionality and cosine similarity >= threshold
ScoresAtLeastThreshold(row) ==
    /\ Len(row.emb) = Len(r_question_embedding)
    /\ AtLeastThreshold(cosine_similarity(r_question_embedding, row.emb))

\* C1 as stated: a stored chunk is in the returned list if and only if its
\* embedding has the query's dimensionality and its cosine similarity is at
\* least the threshold; nothing else about the row decides membership.
C1_MembershipBySimilarityAlone ==
    r_pc = "returned" =>
        \A tr \in StoredRows :
            (PositionsOf(tr[1], tr[2]) # {}) <=> ScoresAtLeastThreshold(tr[2])

\* C2: in the returned list a result of strictly higher similarity stands
\* before one of lower similarity whatever their post_number, and of two
\* results of equal similarity the one with the higher post_number stands
\* first.
C2_RankedBySimilarityThenPostNumber ==
    r_pc = "returned" =>
        \A i, j \in 1..Len(r_returned) :
            i < j =>
                /\ ~SimLess(r_returned[i].similarity, r_returned[j].similarity)
                /\ SimEqual(r_returned[i].similarity, r_returned[j].similarity)
                       => r_returned[i].post_number >= r_returned[j].post_number

\* three results: one pair where the higher similarity wins against a higher
\* post_number, one pair of equal similarity ordered by post_number, and an
\* order that is not the order the rows were scanned in
C2_Witness ==
    /\ r_pc = "returned"
    /\ Len(r_returned) = 3
    /\ \E i, j \in 1..3 :
           /\ i < j
           /\ SimLess(r_returned[j].similarity, r_returned[i].similarity)
           /\ r_returned[j].post_number > r_returned[i].post_number
    /\ \E i, j \in 1..3 :
           /\ i < j
           /\ SimEqual(r_returned[i].similarity, r_returned[j].similarity)
           /\ r_returned[i].post_number > r_returned[j].post_number
           /\ r_returned[i].source = "course"
           /\ r_returned[j].source = "forum"

\* the tie-break key the claim gives a url: the integer value of its trailing
\* path segment when that is numeric, 0 otherwise, 0 for an absent url
ClaimedTieBreakKey(url) ==
    IF url = None THEN 0
    ELSE IF IsDigit(TrailingSegment(url)) THEN ToInt(TrailingSegment(url))
    ELSE 0

\* C10 as stated: every chunk scored at or above the threshold is ranked with
\* the tie-break key of its url: the integer value of the trailing path
\* segment when numeric, 0 otherwise, and 0 when the url is absent.
C10_TieBreakKeyFromUrl ==
    r_pc = "returned" =>
        \A tr \in StoredRows :
            ScoresAtLeastThreshold(tr[2]) =>
                \E i \in PositionsOf(tr[1], tr[2]) :
                    r_returned[i].post_number = ClaimedTieBreakKey(tr[2].url)

(***************************************************************************)
(* Claims about query_virtual_ta, checked under SpecQuery                  *)
(***************************************************************************)
\* C3: when retrieval returns no chunk the handler returns the fixed answer
\* with no links and never calls the generative model; the model is called
\* only after retrieval has returned at least one chunk.
C3_NoChunksNoModelCall ==
    /\ (q_pc = "done" /\ q_chunks = << >>) =>
           /\ q_response = [answer |-> NO_CONTENT_ANSWER, links |-> << >>]
           /\ q_llm_calls = 0
    /\ q_llm_calls > 0 =>
           /\ q_pc \in {"awaiting", "done", "error"}
           /\ Len(q_chunks) >= 1

\* a request answered from a store that holds chunks, none of them retrieved
C3_Witness ==
    /\ q_pc = "done"
    /\ q_chunks = << >>
    /\ forum_chunks \o course_chunks # << >>
    /\ q_response.answer = NO_CONTENT_ANSWER

\* s.split("\n")
RECURSIVE SplitLines(_)
SplitLines(s) ==
    LET nl == ScanUntil(s, 1, {"\n"})
    IN  IF nl > Len(s) THEN <<s>>
        ELSE <<SubSeq(s, 1, nl - 1)>> \o SplitLines(SubSeq(s, nl + 1, Len(s)))

\* the citation of one line: one if the line has the form
\* URL: <non-whitespace token>, Text: <rest of line>, none otherwise
LineCitation(line) ==
    LET found == FindIterLinks(line, 1)
    IN  IF found = << >> THEN << >> ELSE <<found[1]>>

\* the citations of the lines, in the order of the lines
RECURSIVE CitationsOfLines(_)
CitationsOfLines(lines) ==
    IF lines = << >> THEN << >>
    ELSE LineCitation(Head(lines)) \o CitationsOfLines(Tail(lines))

\* C4 as stated: without the marker the whole (trimmed) response is the
\* answer and there are no citations; with it the (trimmed) text before the
\* first marker is the answer, every line after it of the form
\* URL: <token>, Text: <rest of line> yields exactly one citation, in the
\* order of the lines, and no other line yields one.
C4_CitationsLineByLine ==
    (q_pc = "done" /\ q_llm_calls > 0) =>
        LET at == FindFirst(q_llm_output, SOURCES_MARKER)
        IN  IF at = 0
            THEN q_response = [answer |-> Strip(q_llm_output), links |-> << >>]
            ELSE q_response =
                   [answer |-> Strip(SubSeq(q_llm_output, 1, at - 1)),
                    links |-> CitationsOfLines(SplitLines(
                        SubSeq(q_llm_output, at + Len(SOURCES_MARKER), Len(q_llm_output))))]

(***************************************************************************)
(* Claims about process_course_md, checked under SpecCourse                *)
(***************************************************************************)
\* the lines of the one file being processed
FileLines == i_course_files[1].lines

\* the first line is the front-matter delimiter
OpensFrontMatter(lines) == lines # << >> /\ Strip(lines[1]) = FRONT_MATTER_DELIMITER

\* index of the line that closes the front matter, Len(lines) + 1 if none does
ClosingLine(lines) ==
    LET closers == { i \in 2..Len(lines) : Strip(lines[i]) = FRONT_MATTER_DELIMITER }
    IN  IF closers = {} THEN Len(lines) + 1 ELSE CHOOSE i \in closers : \A j \in closers : i <= j

\* the lines scanned for the url field: between the opening delimiter and the
\* closing one, or the end of the file when nothing closes the block
UrlFieldLines(lines) ==
    { i \in 2..(ClosingLine(lines) - 1) : StartsWith(Strip(lines[i]), URL_FIELD) }

\* what is left of the file after the front-matter block, joined by newlines
RestOfDocument(lines) == JoinLines(SubSeq(lines, ClosingLine(lines) + 1, Len(lines)))

\* t occurs in s
IsSubstring(t, s) == t = << >> \/ \E i \in 1..Len(s) : StartsWithAt(s, i, t)

\* C9 as stated, for the files whose front matter holds the url field: when
\* the first line is the delimiter, the text of every chunk comes from the
\* rest of the document, not from a line of the front-matter block, and every
\* chunk carries the url value of the block with its quotes stripped.
C9_FrontMatterExcludedUrlAttached ==
    (OpensFrontMatter(FileLines) /\ UrlFieldLines(FileLines) # {}) =>
        \A k \in 1..Len(i_pending_course) :
            /\ IsSubstring(i_pending_course[k].text, RestOfDocument(FileLines))
            /\ \E i \in UrlFieldLines(FileLines) :
                   /\ \A j \in UrlFieldLines(FileLines) : j <= i
                   /\ i_pending_course[k].url = UrlValue(FileLines[i])

\* the same for the files whose front matter is closed by a second delimiter
C9_ClosedFrontMatter ==
    (OpensFrontMatter(FileLines) /\ ClosingLine(FileLines) <= Len(FileLines)) =>
        \A k \in 1..Len(i_pending_course) :
            /\ IsSubstring(i_pending_course[k].text, RestOfDocument(FileLines))
            /\ UrlFieldLines(FileLines) # {} =>
                   i_pending_course[k].url = <<"h">>

(***************************************************************************)
(* Claims about the ingestion run, checked under SpecIngest                *)
(***************************************************************************)
\* C7 as stated: when the provider returns a number of vectors different
\* from the number of texts, embedding fails for that document, so nothing
\* of that batch is stored: no chunk is dropped silently or stored with
\* another chunk's vector.
C7_CountMismatchStoresNothing ==
    \A k \in 1..Len(i_batches) :
        i_batches[k].returned # Len(i_batches[k].chunks) => i_batches[k].stored = << >>

\* the documents the run had not reached when it was aborted
DocumentsLeft ==
    IF cm_pc = "raised" THEN Len(i_course_files) - i_file
    ELSE (Len(i_forum_files) - i_file) + Len(i_course_files)

\* C8 as stated: a failure while ingesting one document does not abort the
\* run; the run never ends with documents that were not processed.
C8_FailureDoesNotAbortRun ==
    i_pc = "aborted" => DocumentsLeft = 0

\* the row carries a chunk id that uuid4 has handed out in the current run
InsertedByRun(row) ==
    /\ row.chunk_id > RunFirstId(i_run)
    /\ row.chunk_id <= i_next_id

\* C11: when a run of main has ended, after any number of runs before it,
\* every row of both tables was inserted by that last run, none by a run
\* before it, and no chunk id is in both tables.
C11_StoreHoldsOnlyLastRun ==
    i_pc \in {"done", "aborted"} =>
        /\ \A k \in 1..Len(forum_chunks) : InsertedByRun(forum_chunks[k])
        /\ \A k \in 1..Len(course_chunks) : InsertedByRun(course_chunks[k])
        /\ \A f \in 1..Len(forum_chunks) : \A c \in 1..Len(course_chunks) :
               forum_chunks[f].chunk_id # course_chunks[c].chunk_id

\* a second run has committed rows to both tables
C11_Witness ==
    /\ i_pc = "done"
    /\ i_run = 2
    /\ forum_chunks # << >>
    /\ course_chunks # << >>

(***************************************************************************)
(* Termination of chunk_text, checked under FairSpecChunk                  *)
(***************************************************************************)
\* C12: with chunk_size > overlap every step of the loop moves start forward
\* by chunk_size - overlap, which is positive, and the call returns, with
\* start at or past the end of the text.
C12_ChunkTextTerminates ==
    /\ [][(ct_size > ct_overlap /\ ct_windows' # ct_windows) =>
             /\ ct_start' = ct_start + (ct_size - ct_overlap)
             /\ ct_start' > ct_start]_vars
    /\ (ct_size > ct_overlap) ~> (ct_pc = "done" /\ ct_start >= Len(ct_text))

\* a call with a positive overlap smaller than chunk_size has returned after
\* more than two steps
C12_Witness ==
    /\ ct_pc = "done"
    /\ ct_overlap > 0
    /\ ct_size > ct_overlap
    /\ Len(ct_windows) > 2

(***************************************************************************)
(* Sections of a course document, checked under SpecCourse                 *)
(***************************************************************************)
\* the line begins with the heading marker, whitespace before it aside
HeadingLine(line) == LET t == Strip(line) IN t # << >> /\ t[1] = "#"

\* the heading without its marker characters and the whitespace around it
RECURSIVE HeadingText(_)
HeadingText(line) ==
    IF line = << >> THEN << >>
    ELSE IF Head(line) \in {"#", " ", "\n"} THEN HeadingText(Tail(line))
    ELSE IF line[Len(line)] \in {"#", " ", "\n"} THEN HeadingText(SubSeq(line, 1, Len(line) - 1))
    ELSE line

\* a section is named by the index of its heading, 0 for the text before
\* the first heading
SectionHeads(lines) == {0} \cup { i \in 1..Len(lines) : HeadingLine(lines[i]) }

\* index of the last line of the section opened at h
SectionLast(lines, h) ==
    LET later == { j \in SectionHeads(lines) : j > h }
    IN  IF later = {} THEN Len(lines)
        ELSE (CHOOSE j \in later : \A i \in later : j <= i) - 1

\* the lines first..last, each followed by a newline
RECURSIVE LinesText(_, _, _)
LinesText(lines, first, last) ==
    IF first > last THEN << >>
    ELSE lines[first] \o <<"\n">> \o LinesText(lines, first + 1, last)

SectionText(lines, h) == LinesText(lines, h + 1, SectionLast(lines, h))

SectionTitle(lines, h) == IF h = 0 THEN << >> ELSE HeadingText(lines[h])

\* the heads of the sections that hold more than whitespace, in document
\* order, among the heads above h
RECURSIVE SectionsWithText(_, _)
SectionsWithText(lines, h) ==
    LET later == { j \in SectionHeads(lines) :
                       j > h /\ Strip(SectionText(lines, j)) # << >> }
    IN  IF later = {} THEN << >>
        ELSE LET next == CHOOSE j \in later : \A i \in later : j <= i
             IN  <<next>> \o SectionsWithText(lines, next)

\* the rows stored of the batches before batch k
RECURSIVE RowsBefore(_)
RowsBefore(k) == IF k <= 1 THEN 0 ELSE RowsBefore(k - 1) + Len(i_batches[k - 1].stored)

\* the batch whose insert loop has written row r
BatchOfRow(r) ==
    CHOOSE k \in 1..Len(i_batches) :
        RowsBefore(k) < r /\ r <= RowsBefore(k) + Len(i_batches[k].stored)

\* C13: the k-th chunked buffer holds text of the k-th section with text and
\* of no other: every chunk is a piece of that section's text, which lies
\* between two headings and holds no heading line; every row carries the
\* title of that section's heading, empty before the first heading; and when
\* the document has been read to its end every section with text, the last
\* one included, has been chunked.
C13_ChunksWithinSections ==
    LET sections == SectionsWithText(cm_lines, -1)
    IN  /\ Len(i_batches) <= Len(sections)
        /\ \A k \in 1..Len(i_batches) :
               /\ i_batches[k].chunks # << >>
               /\ \A c \in 1..Len(i_batches[k].chunks) :
                      /\ i_batches[k].chunks[c] # << >>
                      /\ IsSubstring(i_batches[k].chunks[c], SectionText(cm_lines, sections[k]))
        /\ \A r \in 1..Len(i_pending_course) :
               LET k == BatchOfRow(r)
               IN  /\ i_pending_course[r].section_title = SectionTitle(cm_lines, sections[k])
                   /\ \E c \in 1..Len(i_batches[k].chunks) :
                          i_pending_course[r].text = i_batches[k].chunks[c]
        /\ cm_pc = "returned" => Len(i_batches) = Len(sections)

\* a document with text before its first heading and text after its last
\* one has been read to its end, and both texts are stored
C13_Witness ==
    /\ cm_pc = "returned"
    /\ \E r \in 1..Len(i_pending_course) : i_pending_course[r].section_title = << >>
    /\ \E r \in 1..Len(i_pending_course) : i_pending_course[r].section_title = <<"T">>

(***************************************************************************)
(* Durability of a run, checked under SpecIngest                           *)
(***************************************************************************)
\* C14: from create_db until the commit at the end of main both tables are
\* empty in the database file, whatever has been inserted on the connection,
\* and they stay empty when the run is aborted: neither the rows of the run
\* before nor rows of the aborted run are there. Once the commit is done,
\* every row the run has inserted is in the file.
C14_DurableOnlyAtCommit ==
    /\ i_pc \in {"forum", "course", "aborted"} =>
           /\ forum_chunks = << >>
           /\ course_chunks = << >>
    /\ i_pc = "done" =>
           Len(forum_chunks) + Len(course_chunks) = RowsBefore(Len(i_batches) + 1)

\* a run has been aborted after rows of it were inserted
C14_Witness ==
    /\ i_pc = "aborted"
    /\ \E k \in 1..Len(i_batches) : i_batches[k].stored # << >>

====
